---- MODULE Spec2Model ----
(***************************************************************************)
(* redis-utils: the tx! optimistic-locking retry loop (src/src/lib.rs) and *)
(* the JSON converters it is used with (src/src/converters.rs), run        *)
(* against a store with Redis WATCH / MULTI / EXEC / UNWATCH semantics.    *)
(*                                                                         *)
(* Every connection runs at most one tx! invocation.  The transaction body *)
(* is the body of the crate's documentation example: read "key1", add one, *)
(* abort when the result is 69, otherwise queue a set of the new value.    *)
(* It reads and writes through the JSON converters, so the store holds     *)
(* encoded text.  Other clients write arbitrary text under any key.        *)
(*                                                                         *)
(* A command that fails is a connection failure: the command has no effect *)
(* on the store, the connection is lost, and the server forgets the        *)
(* connection's watches.  A reply that cannot be converted to the type     *)
(* asked for (nil read as a String) is an error on a live connection.      *)
(***************************************************************************)
EXTENDS Integers, Sequences, FiniteSets, TLC

\* ------------------------------------------------------------- bounds
\* Number of writes other clients make in a run.
MaxWrites == 3

\* Number of commands queued in a pipeline outside tx!.
MaxCmds == 2

\* ------------------------------------------------------ program constants
AbortValue == 69
U8Max == 255

Conns == {1, 2}
Keys == {"key1", "key2"}
\* The $keys argument of tx!.
WatchKeys == {"key1"}
\* The key the body reads and sets.
BodyKey == "key1"
AbortPayload == <<"BadNumberFound">>

\* ------------------------------------------------------------- codec
Digits == <<"0", "1", "2", "3", "4", "5", "6", "7", "8", "9">>
DigitSet == {Digits[i] : i \in 1..10}
DigitOf(ch) == (CHOOSE i \in 1..10 : Digits[i] = ch) - 1

\* to_string writing every number with three digits.
to_stringPadded(n) ==
    <<Digits[(n \div 100) + 1], Digits[((n \div 10) % 10) + 1], Digits[(n % 10) + 1]>>

\* serde_json::to_string of an unsigned integer: its decimal digits.
RECURSIVE to_string(_)
to_string(n) ==
    IF n < 10 THEN <<Digits[n + 1]>>
    ELSE Append(to_string(n \div 10), Digits[(n % 10) + 1])

RECURSIVE Num(_)
Num(s) ==
    IF s = <<>> THEN 0
    ELSE 10 * Num(SubSeq(s, 1, Len(s) - 1)) + DigitOf(s[Len(s)])

\* serde_json::from_str::<u8>: a JSON number without sign, fraction or leading
\* zero, in the range of u8.
WellFormed(s) ==
    /\ Len(s) \in 1..3
    /\ \A i \in 1..Len(s) : s[i] \in DigitSet
    /\ (Len(s) > 1 => s[1] # "0")
    /\ Num(s) <= U8Max

from_str(s) ==
    IF WellFormed(s) THEN [tag |-> "Ok", val |-> <<>>, num |-> Num(s)]
    ELSE [tag |-> "Serialization", val |-> <<"decode">>, num |-> 0]

\* ------------------------------------------------------------- state
VARIABLES
    store,        \* the store: a function from the keys that exist to their text
    writes,       \* writes made by other clients so far
    pc,           \* per connection: where its tx! invocation stands
    alive,        \* per connection: the connection is usable
    watching,     \* per connection: the keys the server watches for it
    dirty,        \* per connection: a watched key was written since its watch
    pipe,         \* per connection: the pipeline of the current attempt
    create_tx,    \* per connection: what the body returned
    tx_success,   \* per connection: what the last submit returned
    ret,          \* per connection: the value of tx!
    propagated,   \* per connection: error handed to the enclosing function by `?`
    readRaw,      \* history: the text the body read in the current attempt
    watchCalls,   \* history: WATCH commands issued
    bodyCalls,    \* history: body invocations
    submits,      \* history: pipelines submitted
    violations,   \* history: submits answered with nil
    unwatchCalls, \* history: UNWATCH commands issued
    faulted,      \* history: a command of this connection failed
    applied,      \* history: a pipeline of this connection was applied
    store0,       \* history: the store before any command
    hcall         \* per connection: its last call of a converter and the result

engine == <<pc, alive, watching, dirty, pipe, create_tx, tx_success, ret, propagated>>
history == <<readRaw, watchCalls, bodyCalls, submits, violations, unwatchCalls,
             faulted, applied>>
aux == <<store0, hcall>>
vars == <<store, writes, engine, history, aux>>

NoValue == [tag |-> "None", val |-> <<>>]
Ok(v) == [tag |-> "Ok", val |-> v]
Abort(v) == [tag |-> "Abort", val |-> v]
Serialization(v) == [tag |-> "Serialization", val |-> v]
DbError(v) == [tag |-> "DbError", val |-> v]

IoError == <<"io">>
NilError == <<"nil">>

\* No converter has been called.
NoArg == [kind |-> "none", n |-> 0]
NoCall ==
    [op |-> "none", keys |-> <<>>, arg |-> NoArg, stage |-> "idle", watches |-> 0,
     reads |-> 0, reply |-> <<>>,
     result |-> [tag |-> "None", val |-> <<>>, vals |-> <<>>]]

\* pipe() followed by atomic().
NewPipe == [atomic |-> TRUE, cmds |-> <<>>]

\* ------------------------------------------------------------- store
Present(st, k) == k \in DOMAIN st

\* SET k raw
StoreSet(st, k, raw) ==
    [x \in (DOMAIN st) \cup {k} |-> IF x = k THEN raw ELSE st[x]]

\* The keys a command sequence writes.
Touched(cmds) == {cmds[i].key : i \in 1..Len(cmds)}

\* EXEC of the queued commands, in order.
RECURSIVE ApplyPipe(_, _)
ApplyPipe(st, cmds) ==
    IF cmds = <<>> THEN st
    ELSE ApplyPipe(StoreSet(st, Head(cmds).key, Head(cmds).raw), Tail(cmds))

\* The reply of EXEC: one status per queued command.
ExecReply(cmds) == [i \in 1..Len(cmds) |-> "OK"]

\* A write of the keys ks marks every connection that watches one of them.
MarkDirty(ks, self) ==
    [d \in Conns |->
        IF d # self /\ watching[d] \cap ks # {} THEN TRUE ELSE dirty[d]]

\* ------------------------------------------------------------- converters
\* json_get with a nil reply handed to from_str as empty text.
json_getNilAsText(st, k) ==
    IF ~Present(st, k) THEN from_str(<<>>) ELSE from_str(st[k])

\* JsonGet::json_get: GET as String, then from_str.
json_get(st, k) ==
    IF ~Present(st, k) THEN [tag |-> "DbError", val |-> NilError, num |-> 0]
    ELSE from_str(st[k])

\* PipelineJsonSet::json_set: to_string, then queue SET.
json_set(p, k, v) ==
    [p EXCEPT !.cmds = Append(@, [key |-> k, raw |-> to_string(v)])]

\* A value handed to a converter: a u8, or a value whose Serialize
\* implementation reports an error.
U8(n) == [kind |-> "u8", n |-> n]
Unserializable == [kind |-> "bad", n |-> 0]

\* serde_json::to_string(&val)
Serialize(v) ==
    IF v.kind = "u8" THEN [tag |-> "Ok", val |-> <<>>, raw |-> to_string(v.n)]
    ELSE [tag |-> "Serialization", val |-> <<"encode">>, raw |-> <<>>]

\* PipelineJsonSet with the SET queued before the text is known.
PipelineJsonSetPartial(p, k, v) ==
    IF Serialize(v).tag = "Ok"
    THEN [tag |-> "Ok", val |-> <<>>, pipe |-> json_set(p, k, v.n)]
    ELSE [tag |-> "Serialization", val |-> Serialize(v).val,
          pipe |-> [p EXCEPT !.cmds = Append(@, [key |-> k, raw |-> <<>>])]]

\* PipelineJsonSet::json_set for any value: self.set is called with the text
\* only once to_string has returned it.
PipelineJsonSet(p, k, v) ==
    IF Serialize(v).tag = "Ok"
    THEN [tag |-> "Ok", val |-> <<>>, pipe |-> json_set(p, k, v.n)]
    ELSE [tag |-> "Serialization", val |-> Serialize(v).val, pipe |-> p]

\* The reply of GET (one key) or MGET (several): per key its text or nil.
GetReply(st, ks) ==
    [i \in 1..Len(ks) |->
        IF Present(st, ks[i]) THEN [some |-> TRUE, raw |-> st[ks[i]]]
        ELSE [some |-> FALSE, raw |-> <<>>]]

\* JsonGet::maybe_json_get: GET as Option<String>, then from_str.
maybe_json_get(st, k) ==
    IF ~Present(st, k) THEN [tag |-> "Ok", val |-> <<>>, some |-> FALSE, num |-> 0]
    ELSE [tag |-> from_str(st[k]).tag, val |-> from_str(st[k]).val,
          some |-> from_str(st[k]).tag = "Ok", num |-> from_str(st[k]).num]

\* json_mget, keys.is_single_arg(): maybe_json_get(..).into_iter().collect().
json_mget_single(st, k) ==
    [tag |-> maybe_json_get(st, k).tag, val |-> maybe_json_get(st, k).val,
     vals |-> IF maybe_json_get(st, k).some THEN <<maybe_json_get(st, k).num>>
              ELSE <<>>]

\* The index of the first text of the reply that from_str rejects, 0 if none.
FirstBad(reply) ==
    IF \E i \in 1..Len(reply) : ~WellFormed(reply[i].raw)
    THEN CHOOSE i \in 1..Len(reply) :
            /\ ~WellFormed(reply[i].raw)
            /\ \A j \in 1..(i - 1) : WellFormed(reply[j].raw)
    ELSE 0

\* json_mget_multi with the texts that from_str rejects left out.
json_mget_multiSkipsBad(st, ks) ==
    IF \E i \in 1..Len(ks) : ~GetReply(st, ks)[i].some
    THEN [tag |-> "DbError", val |-> NilError, vals |-> <<>>]
    ELSE LET IsGood(e) == WellFormed(e.raw)
             good == SelectSeq(GetReply(st, ks), IsGood)
         IN [tag |-> "Ok", val |-> <<>>,
             vals |-> [i \in 1..Len(good) |-> from_str(good[i].raw).num]]

\* json_mget_multi with the nil entries of the reply left out.
json_mget_multiOptional(st, ks) ==
    LET IsSome(e) == e.some
        some == SelectSeq(GetReply(st, ks), IsSome)
    IN IF FirstBad(some) # 0
       THEN [tag |-> "Serialization", val |-> from_str(some[FirstBad(some)].raw).val,
             vals |-> <<>>]
       ELSE [tag |-> "Ok", val |-> <<>>,
             vals |-> [i \in 1..Len(some) |-> from_str(some[i].raw).num]]

\* json_mget, several keys: MGET as Vec<String>, then from_str on each text in
\* order, `?` on the first failure.
json_mget_multi(st, ks) ==
    IF \E i \in 1..Len(ks) : ~GetReply(st, ks)[i].some
    THEN [tag |-> "DbError", val |-> NilError, vals |-> <<>>]
    ELSE IF FirstBad(GetReply(st, ks)) # 0
    THEN [tag |-> "Serialization",
          val |-> from_str(GetReply(st, ks)[FirstBad(GetReply(st, ks))].raw).val,
          vals |-> <<>>]
    ELSE [tag |-> "Ok", val |-> <<>>,
          vals |-> [i \in 1..Len(ks) |-> from_str(GetReply(st, ks)[i].raw).num]]

\* JsonGet::json_mget
json_mget(st, ks) ==
    IF Len(ks) = 1 THEN json_mget_single(st, ks[1]) ELSE json_mget_multi(st, ks)

\* What a reading converter returns once its GET or MGET has been answered.
Converted(op, st, ks) ==
    CASE op = "json_get" ->
            [tag |-> json_get(st, ks[1]).tag, val |-> json_get(st, ks[1]).val,
             vals |-> IF json_get(st, ks[1]).tag = "Ok"
                      THEN <<json_get(st, ks[1]).num>> ELSE <<>>]
      [] op = "maybe_json_get" -> json_mget_single(st, ks[1])
      [] OTHER -> json_mget(st, ks)

\* ------------------------------------------------------------- body
\* value = value + 1 on a u8 (the wrapping result of a release build).
AddOne(v) == (v + 1) % (U8Max + 1)

\* The body once its read has been answered with `got`: the result it
\* returns and the pipeline it leaves.
BodyResult(got, p) ==
    IF got.tag # "Ok" THEN [res |-> [tag |-> got.tag, val |-> got.val], pipe |-> p]
    ELSE IF AddOne(got.num) = AbortValue
         THEN [res |-> Abort(AbortPayload), pipe |-> p]
    ELSE [res |-> Ok(<<>>), pipe |-> json_set(p, BodyKey, AddOne(got.num))]

\* ------------------------------------------------------------- actions
Init ==
    /\ store \in {[k \in {} |-> <<>>]}
                 \cup {[k \in {BodyKey} |-> to_string(n)] : n \in {5, 68}}
    /\ writes = 0
    /\ pc = [c \in Conns |-> IF c = 1 THEN "watch" ELSE "idle"]
    /\ alive = [c \in Conns |-> TRUE]
    /\ watching = [c \in Conns |-> {}]
    /\ dirty = [c \in Conns |-> FALSE]
    /\ pipe = [c \in Conns |-> NewPipe]
    /\ create_tx = [c \in Conns |-> NoValue]
    /\ tx_success = [c \in Conns |-> NoValue]
    /\ ret = [c \in Conns |-> NoValue]
    /\ propagated = [c \in Conns |-> NoValue]
    /\ readRaw = [c \in Conns |-> <<>>]
    /\ watchCalls = [c \in Conns |-> 0]
    /\ bodyCalls = [c \in Conns |-> 0]
    /\ submits = [c \in Conns |-> 0]
    /\ violations = [c \in Conns |-> 0]
    /\ unwatchCalls = [c \in Conns |-> 0]
    /\ faulted = [c \in Conns |-> FALSE]
    /\ applied = [c \in Conns |-> FALSE]
    /\ store0 = store
    /\ hcall = [c \in Conns |-> NoCall]

\* The connection of c is lost while a command is in flight.
Disconnect(c) ==
    /\ alive' = [alive EXCEPT ![c] = FALSE]
    /\ watching' = [watching EXCEPT ![c] = {}]
    /\ dirty' = [dirty EXCEPT ![c] = FALSE]
    /\ faulted' = [faulted EXCEPT ![c] = TRUE]

\* WatchErr with the failure of WATCH ignored.
WatchErrIgnored(c) ==
    /\ Disconnect(c)
    /\ pipe' = [pipe EXCEPT ![c] = NewPipe]
    /\ pc' = [pc EXCEPT ![c] = "body"]
    /\ UNCHANGED ret

\* WATCH cannot be sent or answered: break Err(DbError(e)).
WatchErr(c) ==
    /\ Disconnect(c)
    /\ ret' = [ret EXCEPT ![c] = DbError(IoError)]
    /\ pc' = [pc EXCEPT ![c] = "done"]
    /\ UNCHANGED pipe

\* WatchOk with the WATCH sent without its keys.
WatchOkNoKeys(c) ==
    /\ pipe' = [pipe EXCEPT ![c] = NewPipe]
    /\ pc' = [pc EXCEPT ![c] = "body"]
    /\ UNCHANGED <<watching, alive, dirty, faulted, ret>>

\* WatchOk with the pipeline made once, outside the loop.
WatchOkReusesPipe(c) ==
    /\ watching' = [watching EXCEPT ![c] = @ \cup WatchKeys]
    /\ pc' = [pc EXCEPT ![c] = "body"]
    /\ UNCHANGED <<pipe, alive, dirty, faulted, ret>>

\* WatchOk with another key watched than the one given.
WatchOkWrongKey(c) ==
    /\ watching' = [watching EXCEPT ![c] = @ \cup (Keys \ WatchKeys)]
    /\ pipe' = [pipe EXCEPT ![c] = NewPipe]
    /\ pc' = [pc EXCEPT ![c] = "body"]
    /\ UNCHANGED <<alive, dirty, faulted, ret>>

\* WATCH answered: the keys are watched and the attempt's pipeline is made.
WatchOk(c) ==
    /\ watching' = [watching EXCEPT ![c] = @ \cup WatchKeys]
    /\ pipe' = [pipe EXCEPT ![c] = NewPipe]
    /\ pc' = [pc EXCEPT ![c] = "body"]
    /\ UNCHANGED <<alive, dirty, faulted, ret>>

\* watch!($conn, $keys), then the new pipeline.
Watch(c) ==
    /\ pc[c] = "watch"
    /\ watchCalls' = [watchCalls EXCEPT ![c] = @ + 1]
    /\ (WatchErr(c) \/ WatchOk(c))
    /\ UNCHANGED <<store, writes, create_tx, tx_success, propagated, readRaw,
                   bodyCalls, submits, violations, unwatchCalls, applied, aux>>

\* AfterBody with the Abort and Serialization arms breaking without unwatch!.
AfterBodyNoUnwatch(c, res) ==
    /\ create_tx' = [create_tx EXCEPT ![c] = res]
    /\ IF res.tag = "Ok" THEN
          /\ pc' = [pc EXCEPT ![c] = "exec"]
          /\ UNCHANGED ret
       ELSE
          /\ pc' = [pc EXCEPT ![c] = "done"]
          /\ ret' = [ret EXCEPT ![c] = res]

\* The match on create_tx: where the loop goes after the body.
AfterBody(c, res) ==
    /\ create_tx' = [create_tx EXCEPT ![c] = res]
    /\ IF res.tag = "Ok" THEN
          /\ pc' = [pc EXCEPT ![c] = "exec"]
          /\ UNCHANGED ret
       ELSE IF res.tag \in {"Abort", "Serialization"} THEN
          /\ pc' = [pc EXCEPT ![c] = "unwatch"]
          /\ UNCHANGED ret
       ELSE
          /\ pc' = [pc EXCEPT ![c] = "done"]
          /\ ret' = [ret EXCEPT ![c] = res]

\* The body's read cannot be sent or answered: `?` makes the body return
\* Err(DbError(e)).
BodyErr(c) ==
    /\ Disconnect(c)
    /\ AfterBody(c, DbError(IoError))
    /\ UNCHANGED <<pipe, readRaw>>

\* The body's read is answered and the body runs to its end.
BodyRun(c) ==
    LET got == json_get(store, BodyKey)
        out == BodyResult(got, pipe[c])
    IN /\ readRaw' = [readRaw EXCEPT ![c] =
                         IF Present(store, BodyKey) THEN store[BodyKey] ELSE <<>>]
       /\ pipe' = [pipe EXCEPT ![c] = out.pipe]
       /\ AfterBody(c, out.res)
       /\ UNCHANGED <<alive, watching, dirty, faulted>>

\* async { $body }.await and the match on its result.
Body(c) ==
    /\ pc[c] = "body"
    /\ bodyCalls' = [bodyCalls EXCEPT ![c] = @ + 1]
    /\ (BodyErr(c) \/ BodyRun(c))
    /\ UNCHANGED <<store, writes, tx_success, propagated, watchCalls, submits,
                   violations, unwatchCalls, applied, aux>>

\* The pipeline cannot be sent or answered: `?` leaves the enclosing function.
ExecErr(c) ==
    /\ Disconnect(c)
    /\ propagated' = [propagated EXCEPT ![c] = DbError(IoError)]
    /\ pc' = [pc EXCEPT ![c] = "returned"]
    /\ UNCHANGED <<store, tx_success, violations, applied, ret>>

\* ExecNil with the lock violation handed to the caller.
ExecNilSurfaces(c) ==
    /\ dirty[c]
    /\ tx_success' = [tx_success EXCEPT ![c] = NoValue]
    /\ watching' = [watching EXCEPT ![c] = {}]
    /\ dirty' = [dirty EXCEPT ![c] = FALSE]
    /\ violations' = [violations EXCEPT ![c] = @ + 1]
    /\ ret' = [ret EXCEPT ![c] = DbError(<<"lock">>)]
    /\ pc' = [pc EXCEPT ![c] = "done"]
    /\ UNCHANGED <<store, alive, faulted, propagated, applied>>

\* ExecNil with the same pipeline submitted again instead of a new attempt.
ExecNilResubmit(c) ==
    /\ dirty[c]
    /\ tx_success' = [tx_success EXCEPT ![c] = NoValue]
    /\ watching' = [watching EXCEPT ![c] = {}]
    /\ dirty' = [dirty EXCEPT ![c] = FALSE]
    /\ violations' = [violations EXCEPT ![c] = @ + 1]
    /\ pc' = [pc EXCEPT ![c] = "exec"]
    /\ UNCHANGED <<store, alive, faulted, propagated, applied, ret>>

\* ExecNil with a cap of two attempts.
ExecNilCapped(c) ==
    /\ dirty[c]
    /\ tx_success' = [tx_success EXCEPT ![c] = NoValue]
    /\ watching' = [watching EXCEPT ![c] = {}]
    /\ dirty' = [dirty EXCEPT ![c] = FALSE]
    /\ violations' = [violations EXCEPT ![c] = @ + 1]
    /\ IF violations[c] + 1 >= 2
       THEN /\ ret' = [ret EXCEPT ![c] = DbError(<<"retries">>)]
            /\ pc' = [pc EXCEPT ![c] = "done"]
       ELSE /\ pc' = [pc EXCEPT ![c] = "watch"]
            /\ UNCHANGED ret
    /\ UNCHANGED <<store, alive, faulted, propagated, applied>>

\* EXEC answers nil, a watched key having been written: the loop starts over.
ExecNil(c) ==
    /\ dirty[c]
    /\ tx_success' = [tx_success EXCEPT ![c] = NoValue]
    /\ watching' = [watching EXCEPT ![c] = {}]
    /\ dirty' = [dirty EXCEPT ![c] = FALSE]
    /\ violations' = [violations EXCEPT ![c] = @ + 1]
    /\ pc' = [pc EXCEPT ![c] = "watch"]
    /\ UNCHANGED <<store, alive, faulted, propagated, applied, ret>>

\* ExecSome with the loop going round again instead of breaking.
ExecSomeNoBreak(c) ==
    /\ ~dirty[c]
    /\ store' = ApplyPipe(store, pipe[c].cmds)
    /\ tx_success' = [tx_success EXCEPT ![c] = Ok(ExecReply(pipe[c].cmds))]
    /\ watching' = [watching EXCEPT ![c] = {}]
    /\ dirty' = MarkDirty(Touched(pipe[c].cmds), c)
    /\ applied' = [applied EXCEPT ![c] = TRUE]
    /\ pc' = [pc EXCEPT ![c] = "watch"]
    /\ UNCHANGED <<alive, faulted, propagated, violations, ret>>

\* EXEC applies the queued commands and answers with their replies.
ExecSome(c) ==
    /\ ~dirty[c]
    /\ store' = ApplyPipe(store, pipe[c].cmds)
    /\ tx_success' = [tx_success EXCEPT ![c] = Ok(ExecReply(pipe[c].cmds))]
    /\ watching' = [watching EXCEPT ![c] = {}]
    /\ dirty' = MarkDirty(Touched(pipe[c].cmds), c)
    /\ applied' = [applied EXCEPT ![c] = TRUE]
    /\ pc' = [pc EXCEPT ![c] = "unwatch"]
    /\ UNCHANGED <<alive, faulted, propagated, violations, ret>>

\* pipeline.query_async($conn).await? and the test of its result.
Exec(c) ==
    /\ pc[c] = "exec"
    /\ submits' = [submits EXCEPT ![c] = @ + 1]
    /\ (ExecErr(c) \/ ExecNil(c) \/ ExecSome(c))
    /\ UNCHANGED <<writes, pipe, create_tx, readRaw, watchCalls, bodyCalls,
                   unwatchCalls, aux>>

\* BreakValue with the Abort arm breaking with an empty payload.
BreakValueDropsPayload(c) ==
    IF create_tx[c].tag = "Abort" THEN Abort(<<>>)
    ELSE IF create_tx[c].tag = "Serialization" THEN create_tx[c]
    ELSE tx_success[c]

\* BreakValue with the Serialization arm breaking with an empty success.
BreakValueSwallowsCodec(c) ==
    IF create_tx[c].tag = "Abort" THEN create_tx[c]
    ELSE IF create_tx[c].tag = "Serialization" THEN Ok(<<>>)
    ELSE tx_success[c]

\* The value the loop breaks with once unwatch! has succeeded.
BreakValue(c) ==
    IF create_tx[c].tag \in {"Abort", "Serialization"} THEN create_tx[c]
    ELSE tx_success[c]

\* UNWATCH cannot be sent or answered: break Err(DbError(e)).
UnwatchErr(c) ==
    /\ Disconnect(c)
    /\ ret' = [ret EXCEPT ![c] = DbError(IoError)]

\* UNWATCH answered: the loop breaks with the value of its branch.
UnwatchOk(c) ==
    /\ watching' = [watching EXCEPT ![c] = {}]
    /\ dirty' = [dirty EXCEPT ![c] = FALSE]
    /\ ret' = [ret EXCEPT ![c] = BreakValue(c)]
    /\ UNCHANGED <<alive, faulted>>

\* unwatch!($conn), then break.
Unwatch(c) ==
    /\ pc[c] = "unwatch"
    /\ unwatchCalls' = [unwatchCalls EXCEPT ![c] = @ + 1]
    /\ (UnwatchErr(c) \/ UnwatchOk(c))
    /\ pc' = [pc EXCEPT ![c] = "done"]
    /\ UNCHANGED <<store, writes, pipe, create_tx, tx_success, propagated, readRaw,
                   watchCalls, bodyCalls, submits, violations, applied, aux>>

\* The text other clients write.
WriterRaws == {to_string(99), to_string(68), <<"x">>}

\* Another client sets a key.
OtherWrite(k, raw) ==
    /\ writes < MaxWrites
    /\ writes' = writes + 1
    /\ store' = StoreSet(store, k, raw)
    /\ dirty' = MarkDirty({k}, 0)
    /\ UNCHANGED <<pc, alive, watching, pipe, create_tx, tx_success, ret, propagated>>
    /\ UNCHANGED <<history, aux>>

Next ==
    \/ \E c \in Conns : Watch(c)
    \/ \E c \in Conns : Body(c)
    \/ \E c \in Conns : Exec(c)
    \/ \E c \in Conns : Unwatch(c)
    \/ \E k \in Keys, raw \in WriterRaws : OtherWrite(k, raw)

Spec == Init /\ [][Next]_vars

\* The loop is one sequential control flow: every command it awaits is
\* eventually answered or fails.
FairSpec == Spec /\ \A c \in Conns : WF_vars(Watch(c) \/ Body(c) \/ Exec(c) \/ Unwatch(c))

Terminated(c) == pc[c] \in {"done", "returned"}

\* ------------------------------------------------- two engines
\* The values the key holds before two transactions start.
TwoStart == {5, 66, 67}

\* Two connections, each about to run tx! on the same key.
TwoInit ==
    /\ store \in {[k \in {BodyKey} |-> to_string(n)] : n \in TwoStart}
    /\ writes = 0
    /\ pc = [c \in Conns |-> "watch"]
    /\ alive = [c \in Conns |-> TRUE]
    /\ watching = [c \in Conns |-> {}]
    /\ dirty = [c \in Conns |-> FALSE]
    /\ pipe = [c \in Conns |-> NewPipe]
    /\ create_tx = [c \in Conns |-> NoValue]
    /\ tx_success = [c \in Conns |-> NoValue]
    /\ ret = [c \in Conns |-> NoValue]
    /\ propagated = [c \in Conns |-> NoValue]
    /\ readRaw = [c \in Conns |-> <<>>]
    /\ watchCalls = [c \in Conns |-> 0]
    /\ bodyCalls = [c \in Conns |-> 0]
    /\ submits = [c \in Conns |-> 0]
    /\ violations = [c \in Conns |-> 0]
    /\ unwatchCalls = [c \in Conns |-> 0]
    /\ faulted = [c \in Conns |-> FALSE]
    /\ applied = [c \in Conns |-> FALSE]
    /\ store0 = store
    /\ hcall = [c \in Conns |-> NoCall]

\* The two loops interleave command by command; nobody else writes.
TwoNext ==
    \/ \E c \in Conns : Watch(c)
    \/ \E c \in Conns : Body(c)
    \/ \E c \in Conns : Exec(c)
    \/ \E c \in Conns : Unwatch(c)

TwoSpec == TwoInit /\ [][TwoNext]_vars

\* ------------------------------------------------- converters, called directly
\* The connection that calls the converters outside tx!.
HConns == {1}
\* The key arguments: one key, one key twice, two keys.
KeyLists == {<<"key1">>, <<"key1", "key1">>, <<"key1", "key2">>}
\* The values handed to json_set.
HValues == {U8(200), Unserializable}
\* The stores the calls start from.
HStores ==
    {st \in UNION {[D -> {<<"5">>, <<"x">>}] : D \in SUBSET Keys} :
        Present(st, "key2") => st["key2"] = <<"5">>}
ReadOps == {"json_get", "maybe_json_get", "json_mget"}

KeySet(ks) == {ks[i] : i \in 1..Len(ks)}
HResult(tag, val) == [tag |-> tag, val |-> val, vals |-> <<>>]
Called(c, rec) == hcall' = [hcall EXCEPT ![c] = rec]

HInit ==
    /\ store \in HStores
    /\ store0 = store
    /\ writes = 0
    /\ pc = [c \in Conns |-> "idle"]
    /\ alive = [c \in Conns |-> TRUE]
    /\ watching = [c \in Conns |-> {}]
    /\ dirty = [c \in Conns |-> FALSE]
    /\ pipe = [c \in Conns |-> NewPipe]
    /\ create_tx = [c \in Conns |-> NoValue]
    /\ tx_success = [c \in Conns |-> NoValue]
    /\ ret = [c \in Conns |-> NoValue]
    /\ propagated = [c \in Conns |-> NoValue]
    /\ readRaw = [c \in Conns |-> <<>>]
    /\ watchCalls = [c \in Conns |-> 0]
    /\ bodyCalls = [c \in Conns |-> 0]
    /\ submits = [c \in Conns |-> 0]
    /\ violations = [c \in Conns |-> 0]
    /\ unwatchCalls = [c \in Conns |-> 0]
    /\ faulted = [c \in Conns |-> FALSE]
    /\ applied = [c \in Conns |-> FALSE]
    /\ hcall = [c \in Conns |-> NoCall]

\* c can start a call: its connection is usable and no call is under way.
Ready(c) == pc[c] = "idle" /\ alive[c] /\ hcall[c].stage # "watched"

\* self.get(..).await? fails: the converter returns the DbError.
HReadErr(c, op, ks) ==
    /\ Disconnect(c)
    /\ Called(c, [op |-> op, keys |-> ks, arg |-> NoArg, stage |-> "done",
                  watches |-> 0, reads |-> 1, reply |-> <<>>,
                  result |-> HResult("DbError", IoError)])

\* self.get(..) is answered and the converter decodes the reply.
HReadOk(c, op, ks) ==
    /\ Called(c, [op |-> op, keys |-> ks, arg |-> NoArg, stage |-> "done",
                  watches |-> 0, reads |-> 1, reply |-> GetReply(store, ks),
                  result |-> Converted(op, store, ks)])
    /\ UNCHANGED <<alive, watching, dirty, faulted>>

\* json_get, maybe_json_get or json_mget on the connection.
HRead(c, op, ks) ==
    /\ Ready(c)
    /\ op # "json_mget" => Len(ks) = 1
    /\ (HReadErr(c, op, ks) \/ HReadOk(c, op, ks))
    /\ UNCHANGED <<store, store0, writes, pc, pipe, create_tx, tx_success, ret,
                   propagated, readRaw, watchCalls, bodyCalls, submits, violations,
                   unwatchCalls, applied>>

\* HWatchErr with the failure of the WATCH ignored.
HWatchErrIgnored(c, ks) ==
    /\ Disconnect(c)
    /\ Called(c, [op |-> "watch_json_mget", keys |-> ks, arg |-> NoArg,
                  stage |-> "done", watches |-> 1, reads |-> 1,
                  reply |-> GetReply(store, ks), result |-> json_mget(store, ks)])

\* watch_json_mget: the WATCH fails and `?` returns the DbError.
HWatchErr(c, ks) ==
    /\ Disconnect(c)
    /\ Called(c, [op |-> "watch_json_mget", keys |-> ks, arg |-> NoArg,
                  stage |-> "done", watches |-> 1, reads |-> 0, reply |-> <<>>,
                  result |-> HResult("DbError", IoError)])

\* watch_json_mget: the WATCH is answered.
HWatchOk(c, ks) ==
    /\ watching' = [watching EXCEPT ![c] = @ \cup KeySet(ks)]
    /\ Called(c, [op |-> "watch_json_mget", keys |-> ks, arg |-> NoArg,
                  stage |-> "watched", watches |-> 1, reads |-> 0, reply |-> <<>>,
                  result |-> HResult("None", <<>>)])
    /\ UNCHANGED <<alive, dirty, faulted>>

\* watch_json_mget, its first command.
HWatch(c, ks) ==
    /\ Ready(c)
    /\ (HWatchErr(c, ks) \/ HWatchOk(c, ks))
    /\ UNCHANGED <<store, store0, writes, pc, pipe, create_tx, tx_success, ret,
                   propagated, readRaw, watchCalls, bodyCalls, submits, violations,
                   unwatchCalls, applied>>

\* watch_json_mget: self.json_mget(key).await? fails.
HWatchReadErr(c) ==
    /\ Disconnect(c)
    /\ Called(c, [hcall[c] EXCEPT !.stage = "done", !.reads = 1,
                                  !.result = HResult("DbError", IoError)])

\* watch_json_mget: self.json_mget(key) is answered.
HWatchReadOk(c) ==
    /\ Called(c, [hcall[c] EXCEPT !.stage = "done", !.reads = 1,
                                  !.reply = GetReply(store, hcall[c].keys),
                                  !.result = json_mget(store, hcall[c].keys)])
    /\ UNCHANGED <<alive, watching, dirty, faulted>>

\* watch_json_mget, its second command.
HWatchRead(c) ==
    /\ pc[c] = "idle" /\ alive[c] /\ hcall[c].stage = "watched"
    /\ (HWatchReadErr(c) \/ HWatchReadOk(c))
    /\ UNCHANGED <<store, store0, writes, pc, pipe, create_tx, tx_success, ret,
                   propagated, readRaw, watchCalls, bodyCalls, submits, violations,
                   unwatchCalls, applied>>

\* pipe.json_set(k, v) on the connection's pipeline.
HPipeJsonSet(c, k, v) ==
    /\ Ready(c)
    /\ Len(pipe[c].cmds) < MaxCmds
    /\ pipe' = [pipe EXCEPT ![c] = PipelineJsonSet(pipe[c], k, v).pipe]
    /\ Called(c, [op |-> "json_set", keys |-> <<k>>, arg |-> v, stage |-> "done",
                  watches |-> 0, reads |-> 0, reply |-> <<>>,
                  result |-> HResult(PipelineJsonSet(pipe[c], k, v).tag,
                                     PipelineJsonSet(pipe[c], k, v).val)])
    /\ UNCHANGED <<store, store0, writes, pc, alive, watching, dirty, create_tx,
                   tx_success, ret, propagated, history>>

\* The pipeline is submitted as one transaction and a new one is begun.
HSubmit(c) ==
    /\ Ready(c)
    /\ pipe[c].cmds # <<>>
    /\ pipe' = [pipe EXCEPT ![c] = NewPipe]
    /\ Called(c, [op |-> "submit", keys |-> <<>>, arg |-> NoArg, stage |-> "done",
                  watches |-> 0, reads |-> 0, reply |-> <<>>,
                  result |-> HResult(IF dirty[c] THEN "None" ELSE "Ok", <<>>)])
    /\ store' = IF dirty[c] THEN store ELSE ApplyPipe(store, pipe[c].cmds)
    /\ applied' = [applied EXCEPT ![c] = @ \/ ~dirty[c]]
    /\ watching' = [watching EXCEPT ![c] = {}]
    /\ dirty' = [MarkDirty(IF dirty[c] THEN {} ELSE Touched(pipe[c].cmds), c)
                   EXCEPT ![c] = FALSE]
    /\ UNCHANGED <<store0, writes, pc, alive, create_tx, tx_success, ret, propagated,
                   readRaw, watchCalls, bodyCalls, submits, violations, unwatchCalls,
                   faulted>>

HNext ==
    \/ \E c \in HConns, op \in ReadOps, ks \in KeyLists : HRead(c, op, ks)
    \/ \E c \in HConns, ks \in KeyLists : HWatch(c, ks)
    \/ \E c \in HConns : HWatchRead(c)
    \/ \E c \in HConns, k \in Keys, v \in HValues : HPipeJsonSet(c, k, v)
    \/ \E c \in HConns : HSubmit(c)

HelperSpec == HInit /\ [][HNext]_vars

\* C13: json_set on a pipeline is all or nothing: when the value cannot be
\* encoded it returns the Serialization error and leaves the pipeline as it
\* was; when it can, exactly one set of the key with the value's text is
\* appended at the end of the pipeline.
C13Step ==
    \A c \in Conns :
        (hcall'[c].op = "json_set" /\ (hcall'[c] # hcall[c] \/ pipe'[c] # pipe[c])) =>
            IF hcall'[c].arg.kind = "u8"
            THEN /\ hcall'[c].result.tag = "Ok"
                 /\ Len(pipe'[c].cmds) = Len(pipe[c].cmds) + 1
                 /\ SubSeq(pipe'[c].cmds, 1, Len(pipe[c].cmds)) = pipe[c].cmds
                 /\ pipe'[c].cmds[Len(pipe'[c].cmds)].key = hcall'[c].keys[1]
                 /\ WellFormed(pipe'[c].cmds[Len(pipe'[c].cmds)].raw)
                 /\ Num(pipe'[c].cmds[Len(pipe'[c].cmds)].raw) = hcall'[c].arg.n
            ELSE /\ hcall'[c].result = HResult("Serialization", <<"encode">>)
                 /\ pipe'[c] = pipe[c]
C13Thm == [][C13Step]_vars
C13Wit ==
    /\ hcall[1].op = "json_set" /\ hcall[1].arg = Unserializable
    /\ hcall[1].result.tag = "Serialization"
    /\ Len(pipe[1].cmds) = 1

\* C14 as stated: json_get on an absent key fails with an error that is
\* neither the decode failure nor the store failure.
C14Orig ==
    \A c \in Conns :
        (hcall[c].op = "json_get" /\ hcall[c].reply = <<[some |-> FALSE, raw |-> <<>>]>>) =>
            hcall[c].result.tag \notin {"Ok", "Serialization", "DbError"}

\* C14 amended: json_get on an absent key fails with DbError, the variant of a
\* connection failure (there is no NotFound), carrying the conversion error of
\* the nil reply, on a connection that stays usable; on a text that cannot be
\* decoded it fails with Serialization; on a connection failure with DbError;
\* on a well-formed text it returns its value.
C14Inv ==
    \A c \in Conns :
        hcall[c].op = "json_get" =>
            IF hcall[c].reply = <<>>
            THEN hcall[c].result = HResult("DbError", IoError) /\ ~alive[c]
            ELSE IF ~hcall[c].reply[1].some
            THEN hcall[c].result = HResult("DbError", NilError) /\ alive[c]
            ELSE IF ~WellFormed(hcall[c].reply[1].raw)
            THEN hcall[c].result = HResult("Serialization", <<"decode">>)
            ELSE hcall[c].result =
                    [tag |-> "Ok", val |-> <<>>, vals |-> <<Num(hcall[c].reply[1].raw)>>]
C14Wit ==
    /\ hcall[1].op = "json_get" /\ hcall[1].reply = <<[some |-> FALSE, raw |-> <<>>]>>
    /\ hcall[1].result = HResult("DbError", NilError)

\* C15: for the same content of key a, json_mget of [a] and of [a, a] agree:
\* when a exists both return Ok or both the same error, and every element of
\* the result for [a, a] is the element of the result for [a].
C15Inv ==
    \A a \in Keys :
        /\ Present(store, a) =>
              /\ json_mget(store, <<a, a>>).tag = json_mget(store, <<a>>).tag
              /\ json_mget(store, <<a, a>>).val = json_mget(store, <<a>>).val
        /\ json_mget(store, <<a, a>>).tag = "Ok" =>
              /\ json_mget(store, <<a>>).tag = "Ok"
              /\ Len(json_mget(store, <<a>>).vals) = 1
              /\ Len(json_mget(store, <<a, a>>).vals) = 2
              /\ \A i \in 1..2 :
                    json_mget(store, <<a, a>>).vals[i] = json_mget(store, <<a>>).vals[1]
C15Wit ==
    /\ hcall[1].op = "json_mget" /\ hcall[1].keys = <<"key1", "key1">>
    /\ hcall[1].result.vals = <<200, 200>>

\* C16: json_mget of one key is maybe_json_get as a sequence: an absent key
\* gives the empty sequence without error, a key with a well-formed text the
\* one value; json_mget of several keys one of which is absent fails as a
\* whole with an error and returns no element.
C16Inv ==
    \A ks \in KeyLists :
        IF Len(ks) = 1
        THEN /\ ~Present(store, ks[1]) =>
                    json_mget(store, ks) = [tag |-> "Ok", val |-> <<>>, vals |-> <<>>]
             /\ (Present(store, ks[1]) /\ WellFormed(store[ks[1]])) =>
                    json_mget(store, ks) =
                        [tag |-> "Ok", val |-> <<>>, vals |-> <<Num(store[ks[1]])>>]
             /\ json_mget(store, ks).tag = maybe_json_get(store, ks[1]).tag
        ELSE (\E i \in 1..Len(ks) : ~Present(store, ks[i])) =>
                json_mget(store, ks) = [tag |-> "DbError", val |-> NilError, vals |-> <<>>]
C16Wit ==
    /\ hcall[1].op = "json_mget" /\ hcall[1].keys = <<"key1", "key2">>
    /\ Len(hcall[1].reply) = 2
    /\ hcall[1].reply[1].some /\ WellFormed(hcall[1].reply[1].raw)
    /\ ~hcall[1].reply[2].some
    /\ hcall[1].result = HResult("DbError", NilError)

\* C17: for every u8 v and key k, json_set of v under k in a pipeline that
\* commits, followed by json_get of k with no write in between, returns v.
C17Inv ==
    \A k \in Keys, n \in 0..U8Max :
        /\ PipelineJsonSet(NewPipe, k, U8(n)).tag = "Ok"
        /\ json_get(ApplyPipe(store, PipelineJsonSet(NewPipe, k, U8(n)).pipe.cmds), k)
              = [tag |-> "Ok", val |-> <<>>, num |-> n]
C17Wit ==
    /\ applied[1] /\ ~Present(store0, "key1")
    /\ hcall[1].op = "json_get" /\ hcall[1].keys = <<"key1">>
    /\ hcall[1].result.vals = <<200>>

\* C18: watch_json_mget issues the WATCH before the read: it reads only with
\* the keys watched, a failed WATCH returns the DbError without any read, and
\* after a call that returned Ok the connection watches the keys.
C18Inv ==
    \A c \in Conns :
        hcall[c].op = "watch_json_mget" =>
            /\ hcall[c].watches = 1
            /\ hcall[c].stage = "watched" =>
                  hcall[c].reads = 0 /\ KeySet(hcall[c].keys) \subseteq watching[c]
            /\ (hcall[c].stage = "done" /\ hcall[c].reads = 0) =>
                  hcall[c].result = HResult("DbError", IoError) /\ ~alive[c]
            /\ (hcall[c].stage = "done" /\ hcall[c].result.tag = "Ok") =>
                  hcall[c].reads = 1 /\ KeySet(hcall[c].keys) \subseteq watching[c]
C18Step ==
    \A c \in Conns :
        (hcall'[c].op = "watch_json_mget" /\ hcall'[c].reads > 0 /\ hcall'[c] # hcall[c]) =>
            /\ hcall[c].op = "watch_json_mget" /\ hcall[c].stage = "watched"
            /\ hcall[c].keys = hcall'[c].keys
            /\ KeySet(hcall[c].keys) \subseteq watching[c]
C18Thm == [](C18Inv) /\ [][C18Step]_vars
C18Wit ==
    /\ hcall[1].op = "watch_json_mget" /\ hcall[1].keys = <<"key1", "key2">>
    /\ hcall[1].result.tag = "Ok" /\ watching[1] = Keys

\* ------------------------------------------------------------- claims

\* C1: when the submit is answered with nil (a watched key was written), the
\* engine issues no unwatch and returns nothing; it goes back to the watch,
\* watches the same keys, makes a new pipeline and invokes the body again.
C1Inv ==
    \A c \in Conns :
        /\ pc[c] \in {"watch", "body"} =>
              bodyCalls[c] = violations[c] /\ ret[c] = NoValue
        /\ pc[c] \in {"exec", "unwatch"} =>
              bodyCalls[c] = violations[c] + 1 /\ ret[c] = NoValue
C1Step ==
    \A c \in Conns :
        /\ (pc[c] = "exec" /\ submits'[c] # submits[c] /\ dirty[c] /\ alive'[c]) =>
              /\ pc'[c] = "watch"
              /\ violations'[c] = violations[c] + 1
              /\ unwatchCalls'[c] = unwatchCalls[c]
              /\ ret'[c] = NoValue /\ propagated'[c] = NoValue
        /\ (pc[c] = "watch" /\ watchCalls'[c] # watchCalls[c] /\ alive'[c]) =>
              /\ pc'[c] = "body"
              /\ watching'[c] = WatchKeys
              /\ pipe'[c] = NewPipe
C1Thm == [](C1Inv) /\ [][C1Step]_vars
C1Wit == violations[1] >= 1 /\ pc[1] = "exec" /\ bodyCalls[1] = 2 /\ watchCalls[1] = 2

\* C2: when no other client writes a watched key during the first attempt and
\* no command fails, the first submit commits: one watch, one body invocation
\* and one submit, the value of tx! is Ok with the replies of the batch, and
\* the commit leaves the key holding the value read plus one.
C2Inv ==
    \A c \in Conns :
        (pc[c] = "done" /\ ~faulted[c] /\ create_tx[c].tag = "Ok" /\ violations[c] = 0) =>
            /\ ret[c] = Ok(<<"OK">>)
            /\ watchCalls[c] = 1 /\ bodyCalls[c] = 1 /\ submits[c] = 1
C2Step ==
    \A c \in Conns :
        (pc[c] = "exec" /\ submits'[c] # submits[c] /\ ~dirty[c] /\ alive'[c]) =>
            /\ pc'[c] = "unwatch"
            /\ tx_success'[c] = Ok(<<"OK">>)
            /\ Present(store', BodyKey)
            /\ WellFormed(store'[BodyKey])
            /\ Num(store'[BodyKey]) = Num(readRaw[c]) + 1
C2Thm == [](C2Inv) /\ [][C2Step]_vars
C2Wit ==
    /\ ret[1] = Ok(<<"OK">>) /\ violations[1] = 0 /\ writes = 0
    /\ store[BodyKey] = <<"6">>

\* C3: a batch built from a read that a concurrent write has made stale is
\* never applied; the engine retries, and whatever it commits is the value the
\* key holds at the commit, as read in that attempt, plus one.
C3Step ==
    \A c \in Conns :
        (pc[c] = "exec" /\ submits'[c] # submits[c]) =>
            /\ dirty[c] => store' = store /\ (alive'[c] => pc'[c] = "watch")
            /\ store' # store =>
                  /\ Present(store, BodyKey)
                  /\ readRaw[c] = store[BodyKey]
                  /\ Num(store'[BodyKey]) = Num(store[BodyKey]) + 1
                  /\ \A k \in (DOMAIN store) \ {BodyKey} : store'[k] = store[k]
C3Thm == [][C3Step]_vars
C3Wit ==
    /\ applied[1] /\ violations[1] = 1 /\ writes = 1
    /\ store[BodyKey] = <<"1", "0", "0">>

\* C4 as stated: a body that returns Abort always ends in the value
\* Err(Abort(payload)) with the payload it supplied.
C4Orig ==
    \A c \in Conns :
        (create_tx[c].tag = "Abort" /\ Terminated(c)) => ret[c] = Abort(AbortPayload)

\* C4 amended: when the body returns Abort the engine issues unwatch, submits
\* nothing more and never invokes the body again; the value of tx! is
\* Err(Abort(payload)) with the supplied payload when the unwatch succeeds and
\* Err(DbError(e)) when the unwatch itself fails; it is never Ok.
C4Inv ==
    \A c \in Conns :
        create_tx[c].tag = "Abort" =>
            /\ pc[c] \in {"unwatch", "done"}
            /\ submits[c] = violations[c]
            /\ bodyCalls[c] = violations[c] + 1
            /\ pc[c] = "unwatch" => unwatchCalls[c] = 0 /\ ret[c] = NoValue
            /\ pc[c] = "done" =>
                  /\ unwatchCalls[c] = 1
                  /\ IF faulted[c] THEN ret[c] = DbError(IoError)
                     ELSE ret[c] = Abort(AbortPayload)
C4Wit == ret[1] = Abort(AbortPayload) /\ unwatchCalls[1] = 1 /\ violations[1] = 1

\* C5: when the body returns Abort the transaction has written no key, and
\* once tx! has its value the connection watches no key.
C5Inv ==
    \A c \in Conns :
        (create_tx[c].tag = "Abort" /\ Terminated(c)) =>
            watching[c] = {} /\ ~applied[c]
C5Step ==
    \A c \in Conns :
        /\ (pc[c] # pc'[c] /\ store' # store) => applied'[c]
        /\ (pc[c] # pc'[c] /\ create_tx'[c].tag = "Abort") => store' = store
C5Thm == [](C5Inv) /\ [][C5Step]_vars
C5Wit ==
    /\ pc[1] = "done" /\ create_tx[1].tag = "Abort" /\ alive[1]
    /\ writes = 0 /\ store[BodyKey] = <<"6", "8">>

\* C6: on every exit path the watches of the attempt are released: once tx!
\* has ended on a connection that is still usable, the connection watches no
\* key.
C6Claim ==
    \A c \in Conns : (Terminated(c) /\ alive[c]) => watching[c] = {}

\* C7: a submit that commits ends in the value Ok(results): the batch is
\* applied only in runs whose value is Ok, and every other value leaves the
\* store unmodified by the transaction.
C7Claim ==
    \A c \in Conns : (Terminated(c) /\ applied[c]) => ret[c].tag = "Ok"

\* C8: a connection error while watching, while the body reads or while
\* submitting ends the loop and is the value Err(DbError(e)) of tx!.
C8Claim ==
    \A c \in Conns :
        (faulted[c] /\ unwatchCalls[c] = 0) =>
            pc[c] = "done" /\ ret[c] = DbError(IoError)

\* C9: other clients writing only finitely often, tx! eventually ends; when
\* no command failed and the body did not abort or fail, it ends with Ok and
\* the body was invoked once more than the number of lock violations.
C9Inv ==
    \A c \in Conns :
        (Terminated(c) /\ ~faulted[c] /\ create_tx[c].tag = "Ok") =>
            ret[c].tag = "Ok" /\ bodyCalls[c] = violations[c] + 1
C9Thm ==
    /\ \A c \in Conns : (pc[c] = "watch") ~> Terminated(c)
    /\ [](C9Inv)
C9Wit == ret[1].tag = "Ok" /\ violations[1] = 2 /\ bodyCalls[1] = 3

\* C10: the engine has no retry cap: as long as every submit so far was
\* answered with nil and nothing failed, tx! has not ended and goes on
\* retrying, however many violations there were; it ends a run whose body
\* proceeds only by a submit that was not violated.
C10Inv ==
    \A c \in Conns :
        /\ (pc[c] # "idle" /\ ~faulted[c] /\ create_tx[c].tag \in {"None", "Ok"}
              /\ submits[c] = violations[c]) => ~Terminated(c)
        /\ (Terminated(c) /\ ~faulted[c] /\ create_tx[c].tag = "Ok") =>
              submits[c] = violations[c] + 1
C10Wit == violations[1] = MaxWrites /\ pc[1] = "body" /\ watchCalls[1] = MaxWrites + 1

\* C11: every attempt starts from a new, empty atomic pipeline: the body is
\* entered with an empty pipeline, and the pipeline submitted holds exactly
\* the one set queued by that attempt's body, whatever earlier attempts queued.
C11Inv ==
    \A c \in Conns :
        /\ pc[c] = "body" => pipe[c] = NewPipe
        /\ pc[c] = "exec" =>
              /\ pipe[c].atomic
              /\ Len(pipe[c].cmds) = 1
              /\ pipe[c].cmds[1].key = BodyKey
              /\ WellFormed(pipe[c].cmds[1].raw)
              /\ Num(pipe[c].cmds[1].raw) = Num(readRaw[c]) + 1
C11Wit ==
    /\ pc[1] = "exec" /\ violations[1] = 2
    /\ pipe[1].cmds = <<[key |-> BodyKey, raw |-> <<"1", "0", "0">>]>>

\* C12: in every attempt the watch comes first, then the body, then the
\* submit: the body is invoked only with the keys watched by a WATCH of this
\* attempt that succeeded, and a pipeline is submitted only after the body of
\* this attempt has returned Ok.
C12Step ==
    \A c \in Conns :
        /\ bodyCalls'[c] # bodyCalls[c] =>
              /\ alive[c] /\ WatchKeys \subseteq watching[c]
              /\ watchCalls[c] = bodyCalls[c] + 1
              /\ submits[c] = bodyCalls[c]
        /\ submits'[c] # submits[c] =>
              /\ create_tx[c].tag = "Ok"
              /\ bodyCalls[c] = submits[c] + 1
              /\ watchCalls[c] = submits[c] + 1
        /\ watchCalls'[c] # watchCalls[c] =>
              bodyCalls[c] = watchCalls[c] /\ submits[c] = watchCalls[c]
C12Thm == [][C12Step]_vars
C12Wit ==
    /\ pc[1] = "unwatch" /\ applied[1]
    /\ watchCalls[1] = 2 /\ bodyCalls[1] = 2 /\ submits[1] = 2

\* C19 as stated: a body that fails with a codec error always ends in that
\* Serialization error as the value of tx!.
C19Orig ==
    \A c \in Conns :
        (create_tx[c].tag = "Serialization" /\ Terminated(c)) => ret[c] = create_tx[c]

\* C19 amended: when the body fails with a codec error the engine issues
\* unwatch, submits nothing more and never invokes the body again; the value
\* of tx! is that Serialization error when the unwatch succeeds and
\* Err(DbError(e)) when the unwatch itself fails; it is never Ok.
C19Inv ==
    \A c \in Conns :
        create_tx[c].tag = "Serialization" =>
            /\ create_tx[c] = Serialization(<<"decode">>)
            /\ pc[c] \in {"unwatch", "done"}
            /\ submits[c] = violations[c]
            /\ bodyCalls[c] = violations[c] + 1
            /\ pc[c] = "unwatch" => unwatchCalls[c] = 0 /\ ret[c] = NoValue
            /\ pc[c] = "done" =>
                  /\ unwatchCalls[c] = 1
                  /\ IF faulted[c] THEN ret[c] = DbError(IoError)
                     ELSE ret[c] = create_tx[c]
C19Wit ==
    /\ ret[1] = Serialization(<<"decode">>) /\ unwatchCalls[1] = 1
    /\ violations[1] = 1 /\ readRaw[1] = <<"x">>

\* C20: no update is lost between two engines on two connections that watch
\* and increment the same key: in every reachable state the key holds its
\* initial value plus the number of transactions whose pipeline has been
\* applied, and when both have returned Ok it holds the initial value plus two.
C20Inv ==
    /\ Present(store, BodyKey) /\ WellFormed(store[BodyKey])
    /\ Num(store[BodyKey]) =
          Num(store0[BodyKey]) + Cardinality({c \in Conns : applied[c]})
    /\ (\A c \in Conns : ret[c].tag = "Ok") =>
          /\ \A c \in Conns : applied[c]
          /\ Num(store[BodyKey]) = Num(store0[BodyKey]) + 2
C20Wit ==
    /\ \A c \in Conns : ret[c].tag = "Ok" /\ pc[c] = "done"
    /\ violations[1] + violations[2] = 1
    /\ store0[BodyKey] = <<"5">> /\ store[BodyKey] = <<"7">>
====
